---- MODULE Spec2Model ----
(***************************************************************************)
(* Model of weather_chatbot.py: the day resolution and forecast filtering  *)
(* of make_weather_call, and the request/response loop of run_chatbot.     *)
(*                                                                         *)
(* Text is modelled as a tuple of one-character strings, so that lower()   *)
(* and strptime() work on characters.  A calendar date is a record         *)
(* [y, m, d]; a point in time is [date, sec, us].                          *)
(***************************************************************************)
EXTENDS Integers, Sequences, FiniteSets, TLC

\* ------------------------------------------------------------------ bounds

\* Longest `days` list handed to make_weather_call.
MaxDays == 2

\* Lines of user input, other than the quit command, a conversation has.
MaxTurns == 2

\* Most tool calls one LLM response requests.
MaxCalls == 2

\* ---------------------------------------------------------------- calendar

Date(y, m, d) == [y |-> y, m |-> m, d |-> d]

IsLeap(y) == (y % 4 = 0) /\ ((y % 100 # 0) \/ (y % 400 = 0))

DaysInMonth(y, m) ==
    IF m = 2 THEN (IF IsLeap(y) THEN 29 ELSE 28)
    ELSE IF m \in {4, 6, 9, 11} THEN 30 ELSE 31

\* Days of the year before the first of month m (non-leap year).
DaysBeforeMonthTable == <<0, 31, 59, 90, 120, 151, 181, 212, 243, 273, 304, 334>>

DaysBeforeMonth(y, m) ==
    DaysBeforeMonthTable[m] + (IF m > 2 /\ IsLeap(y) THEN 1 ELSE 0)

DaysBeforeYear(y) ==
    (y - 1) * 365 + ((y - 1) \div 4) - ((y - 1) \div 100) + ((y - 1) \div 400)

\* date.toordinal(): 0001-01-01 is day 1.
ToOrdinal(dt) == DaysBeforeYear(dt.y) + DaysBeforeMonth(dt.y, dt.m) + dt.d

\* date.weekday(): Monday = 0 .. Sunday = 6.
Weekday(dt) == (ToOrdinal(dt) + 6) % 7

NextDay(dt) ==
    IF dt.d < DaysInMonth(dt.y, dt.m) THEN Date(dt.y, dt.m, dt.d + 1)
    ELSE IF dt.m < 12 THEN Date(dt.y, dt.m + 1, 1)
    ELSE Date(dt.y + 1, 1, 1)

PrevDay(dt) ==
    IF dt.d > 1 THEN Date(dt.y, dt.m, dt.d - 1)
    ELSE IF dt.m > 1 THEN Date(dt.y, dt.m - 1, DaysInMonth(dt.y, dt.m - 1))
    ELSE Date(dt.y - 1, 12, 31)

\* dt + timedelta(days=k)
RECURSIVE AddDays(_, _)
AddDays(dt, k) ==
    IF k = 0 THEN dt
    ELSE IF k > 0 THEN AddDays(NextDay(dt), k - 1)
    ELSE AddDays(PrevDay(dt), k + 1)

SecondsPerDay == 86400
MicrosPerSecond == 1000000

\* (date_obj - today).days, date_obj being midnight of the parsed date.
\* timedelta normalises microseconds into seconds and seconds into days
\* by floor division, so the day count is the floor of the difference.
DeltaDays(dt, today) ==
    LET us    == 0 - today.us
        secs  == (0 - today.sec) + (us \div MicrosPerSecond)
        carry == secs \div SecondsPerDay
    IN  (ToOrdinal(dt) - ToOrdinal(today.date)) + carry

\* -------------------------------------------------------------------- text

Digits == <<"0", "1", "2", "3", "4", "5", "6", "7", "8", "9">>

IsDigit(c) == \E k \in 1..10 : Digits[k] = c

DigitVal(c) == (CHOOSE k \in 1..10 : Digits[k] = c) - 1

UpperCase == <<"A", "B", "C", "D", "E", "F", "G", "H", "I", "J", "K", "L", "M",
               "N", "O", "P", "Q", "R", "S", "T", "U", "V", "W", "X", "Y", "Z">>
LowerCase == <<"a", "b", "c", "d", "e", "f", "g", "h", "i", "j", "k", "l", "m",
               "n", "o", "p", "q", "r", "s", "t", "u", "v", "w", "x", "y", "z">>

LowerChar(c) ==
    IF \E k \in 1..26 : UpperCase[k] = c
    THEN LowerCase[CHOOSE k \in 1..26 : UpperCase[k] = c]
    ELSE c

\* str.lower()
Lower(s) == [k \in 1..Len(s) |-> LowerChar(s[k])]

\* The fields of s between occurrences of the separator.
RECURSIVE Split(_, _)
Split(s, sep) ==
    IF \A k \in 1..Len(s) : s[k] # sep THEN <<s>>
    ELSE LET k == CHOOSE k \in 1..Len(s) :
                      s[k] = sep /\ \A j \in 1..(k - 1) : s[j] # sep
         IN  <<SubSeq(s, 1, k - 1)>> \o Split(SubSeq(s, k + 1, Len(s)), sep)

\* Value of a field of digits (a leading blank counts as nothing).
RECURSIVE ToInt(_)
ToInt(f) ==
    IF Len(f) = 0 THEN 0
    ELSE 10 * ToInt(SubSeq(f, 1, Len(f) - 1))
         + (IF IsDigit(f[Len(f)]) THEN DigitVal(f[Len(f)]) ELSE 0)

\* strptime's pattern for %d: 3[0-1] | [1-2]\d | 0[1-9] | [1-9] | " "[1-9]
MatchD(f) ==
    \/ Len(f) = 2 /\ f[1] = "3" /\ f[2] \in {"0", "1"}
    \/ Len(f) = 2 /\ f[1] \in {"1", "2"} /\ IsDigit(f[2])
    \/ Len(f) = 2 /\ f[1] \in {"0", " "} /\ IsDigit(f[2]) /\ f[2] # "0"
    \/ Len(f) = 1 /\ IsDigit(f[1]) /\ f[1] # "0"

\* strptime's pattern for %m: 1[0-2] | 0[1-9] | [1-9]
MatchM(f) ==
    \/ Len(f) = 2 /\ f[1] = "1" /\ f[2] \in {"0", "1", "2"}
    \/ Len(f) = 2 /\ f[1] = "0" /\ IsDigit(f[2]) /\ f[2] # "0"
    \/ Len(f) = 1 /\ IsDigit(f[1]) /\ f[1] # "0"

\* strptime's pattern for %Y: \d\d\d\d
MatchY(f) == Len(f) = 4 /\ \A k \in 1..4 : IsDigit(f[k])

\* datetime(y, m, d) accepts the triple (else ValueError).
ValidDate(y, m, d) ==
    /\ y \in 1..9999
    /\ m \in 1..12
    /\ d \in 1..DaysInMonth(y, m)

\* The year strptime assumes when the format has none.
DefaultYear == 1900

Formats == <<"%d.%m.%Y", "%d.%m", "%Y-%m-%d">>

NoDate == [y |-> 0, m |-> 0, d |-> 0]

\* datetime.strptime(s, fmt): the date parsed, or NoDate for a ValueError.
Strptime(s, fmt) ==
    IF fmt = "%d.%m.%Y" THEN
        LET f == Split(s, ".") IN
        IF Len(f) = 3 /\ MatchD(f[1]) /\ MatchM(f[2]) /\ MatchY(f[3])
           /\ ValidDate(ToInt(f[3]), ToInt(f[2]), ToInt(f[1]))
        THEN Date(ToInt(f[3]), ToInt(f[2]), ToInt(f[1])) ELSE NoDate
    ELSE IF fmt = "%d.%m" THEN
        LET f == Split(s, ".") IN
        IF Len(f) = 2 /\ MatchD(f[1]) /\ MatchM(f[2])
           /\ ValidDate(DefaultYear, ToInt(f[2]), ToInt(f[1]))
        THEN Date(DefaultYear, ToInt(f[2]), ToInt(f[1])) ELSE NoDate
    ELSE
        LET f == Split(s, "-") IN
        IF Len(f) = 3 /\ MatchY(f[1]) /\ MatchM(f[2]) /\ MatchD(f[3])
           /\ ValidDate(ToInt(f[1]), ToInt(f[2]), ToInt(f[3]))
        THEN Date(ToInt(f[1]), ToInt(f[2]), ToInt(f[3])) ELSE NoDate

\* The loop over the three formats: the first that parses wins.
RECURSIVE ParseFrom(_, _)
ParseFrom(s, k) ==
    IF k > Len(Formats) THEN NoDate
    ELSE IF Strptime(s, Formats[k]) # NoDate THEN Strptime(s, Formats[k])
    ELSE ParseFrom(s, k + 1)

ParseDate(s) == ParseFrom(s, 1)

\* ------------------------------------------------------------ day strings

TwoDigits(n) == <<Digits[(n \div 10) + 1], Digits[(n % 10) + 1]>>

FourDigits(n) ==
    <<Digits[(n \div 1000) + 1], Digits[((n \div 100) % 10) + 1],
      Digits[((n \div 10) % 10) + 1], Digits[(n % 10) + 1]>>

\* dd.mm.yyyy
FormatDMY(dt) == TwoDigits(dt.d) \o <<".">> \o TwoDigits(dt.m) \o <<".">> \o FourDigits(dt.y)
\* dd.mm
FormatDM(dt) == TwoDigits(dt.d) \o <<".">> \o TwoDigits(dt.m)
\* yyyy-mm-dd
FormatYMD(dt) == FourDigits(dt.y) \o <<"-">> \o TwoDigits(dt.m) \o <<"-">> \o TwoDigits(dt.d)
\* dd.mm.yy, which none of the three formats accepts
FormatDMYShort(dt) ==
    TwoDigits(dt.d) \o <<".">> \o TwoDigits(dt.m) \o <<".">> \o TwoDigits(dt.y % 100)

\* The keys of the `weekdays` dict, in the order of their values 0..6.
WeekdayKeys ==
    << <<"m", "o", "n", "d", "a", "y">>,
       <<"t", "u", "e", "s", "d", "a", "y">>,
       <<"w", "e", "d", "n", "e", "s", "d", "a", "y">>,
       <<"t", "h", "u", "r", "s", "d", "a", "y">>,
       <<"f", "r", "i", "d", "a", "y">>,
       <<"s", "a", "t", "u", "r", "d", "a", "y">>,
       <<"s", "u", "n", "d", "a", "y">> >>

InWeekdays(s) == \E k \in 1..7 : WeekdayKeys[k] = s

\* weekdays[s]
WeekdayNumber(s) == (CHOOSE k \in 1..7 : WeekdayKeys[k] = s) - 1

\* Series.dt.day_name()
DayNames == <<"Monday", "Tuesday", "Wednesday", "Thursday", "Friday", "Saturday", "Sunday">>

DayName(dt) == DayNames[Weekday(dt) + 1]

\* ------------------------------------------------ make_weather_call: data

\* The texts make_weather_call returns instead of raising.
GeoErrorText == "The location could not be found due to an error with the Geolocation."
NotFoundText == "The given location could not be found."
WeatherErrorText == "Could not retrieve weather data."

PastText == "is in the past."
FutureText == "is too far in the future."

\* f"{day} {text}"
Message(day, text) == [day |-> day, text |-> text]
NoMessage == [day |-> <<>>, text |-> ""]

Resolution(kind, value, message) == [kind |-> kind, value |-> value, message |-> message]

\* (day_number - today.weekday()) % 7
MutWeekdayOffset(day_number, today) == (Weekday(today.date) - day_number) % 7
WeekdayOffset(day_number, today) == (day_number - Weekday(today.date)) % 7

\* One pass of the loop body over an entry of `days`: the offset appended to
\* days_to_get_weather, the message appended to messages, or nothing.
ResolveDay(entry, today) ==
    LET day == Lower(entry) IN
    IF InWeekdays(day)
    THEN Resolution("offset", WeekdayOffset(WeekdayNumber(day), today), NoMessage)
    ELSE LET date_obj == ParseDate(day) IN
         IF date_obj # NoDate
         THEN LET delta == DeltaDays(date_obj, today) IN
              IF delta < 0 THEN Resolution("rejected", 0, Message(day, PastText))
              ELSE IF delta > 6 THEN Resolution("rejected", 0, Message(day, FutureText))
              ELSE Resolution("offset", delta, NoMessage)
         ELSE Resolution("skipped", 0, NoMessage)

\* range(7)
AllDays == <<0, 1, 2, 3, 4, 5, 6>>

\* if not days_to_get_weather: days_to_get_weather = range(7)
MutDefaultDays(offsets) == offsets
DefaultDays(offsets) == IF offsets = <<>> THEN AllDays ELSE offsets

\* get_weather: one row per day from start_date to start_date + 6, the row
\* of day k carrying index label k.
GetWeather(start) == [k \in 1..7 |-> [date |-> AddDays(start, k - 1)]]

\* weather_data.loc[labels], then the day_of_week column, then the records.
MutFilterRows(weather_data, labels) ==
    [k \in 1..Len(labels) |->
        [date        |-> weather_data[labels[k] + 1].date,
         day_of_week |-> DayNames[((Weekday(weather_data[1].date) + k - 1) % 7) + 1]]]
FilterRows(weather_data, labels) ==
    [k \in 1..Len(labels) |->
        [date        |-> weather_data[labels[k] + 1].date,
         day_of_week |-> DayName(weather_data[labels[k] + 1].date)]]

\* What make_weather_call returns.
ReturnText(text)  == [kind |-> "text", text |-> text, error |-> <<>>, rows |-> <<>>]
MutReturnError(msgs) == [kind |-> "error", text |-> "", error |-> <<msgs[1]>>, rows |-> <<>>]
ReturnError(msgs) == [kind |-> "error", text |-> "", error |-> msgs, rows |-> <<>>]
ReturnJson(rows)  == [kind |-> "json", text |-> "", error |-> <<>>, rows |-> rows]
NoReturn          == [kind |-> "none", text |-> "", error |-> <<>>, rows |-> <<>>]

\* The whole loop over days: the offsets and the messages it collects.
RECURSIVE ResolveAll(_, _)
ResolveAll(ds, t) ==
    IF ds = <<>> THEN [offsets |-> <<>>, messages |-> <<>>]
    ELSE LET rest == ResolveAll(SubSeq(ds, 1, Len(ds) - 1), t)
             r    == ResolveDay(ds[Len(ds)], t)
         IN  [offsets  |-> IF r.kind = "offset" THEN Append(rest.offsets, r.value)
                           ELSE rest.offsets,
              messages |-> IF r.kind = "rejected" THEN Append(rest.messages, r.message)
                           ELSE rest.messages]

\* make_weather_call as one call, for a geocoder that raises, finds nothing
\* or finds the place, a weather service that raises or answers, and the
\* clock reading t.
MakeWeatherCall(ds, t, geo, wx) ==
    IF geo = "raises" THEN ReturnText(GeoErrorText)
    ELSE IF geo = "None" THEN ReturnText(NotFoundText)
    ELSE LET r == ResolveAll(ds, t) IN
         IF r.messages # <<>> THEN ReturnError(r.messages)
         ELSE IF wx = "raises" THEN ReturnText(WeatherErrorText)
         ELSE ReturnJson(FilterRows(GetWeather(t.date), DefaultDays(r.offsets)))

\* ----------------------------------------------- make_weather_call: state

VARIABLES
    now,                  \* the clock datetime.today() reads
    place, days,          \* the arguments of the call
    pc,                   \* where the call stands
    location,             \* "unset", then what geocode returned: "None" or "found"
    failure,              \* which external call raised: "none", "geocoder", "weather"
    today,                \* the value `today` was assigned
    i,                    \* index of the next entry of days the loop takes
    days_to_get_weather,  \* the offsets resolved so far
    messages,             \* the rejection messages so far
    weather_data,         \* the rows get_weather returned
    fetches,              \* calls of get_weather made
    ret                   \* the value returned

toolVars == <<now, place, days, pc, location, failure, today, i, days_to_get_weather,
              messages, weather_data, fetches, ret>>

\* ------------------------------------------------------- run_chatbot: state

VARIABLES
    cpc,             \* where the loop stands: "input", "invoke", "tools",
                     \* "exited" (after break), "crashed" (uncaught exception)
    start,           \* the flag `start`
    previous_place,  \* the variable `previous_place`
    line,            \* the line input() returned
    chat_messages,   \* the list `messages` of the turn
    response,        \* the variable `response`
    tool_index,      \* position in response.tool_calls of the next call
    out,             \* what the turn printed
    turn,            \* lines other than the quit command read so far
    first_response,  \* history: the first response of the turn
    invocations,     \* history: the LLM invocations of the turn
    executed,        \* history: the tool calls the turn executed
    tool_ran,        \* history: a tool call was executed in the conversation
    last_tool_place  \* history: the place of the last tool call executed

chatVars == <<cpc, start, previous_place, line, chat_messages, response, tool_index,
              out, turn, first_response, invocations, executed, tool_ran,
              last_tool_place>>

vars == <<toolVars, chatVars>>

NoTime == [date |-> NoDate, sec |-> 0, us |-> 0]

Time(dt, sec, us) == [date |-> dt, sec |-> sec, us |-> us]

\* The clock readings the model starts from: midnight exactly, mid-morning,
\* the last microsecond of a day whose window holds 29 February, and the
\* first microsecond of a day whose window crosses the year's end.
Clocks ==
    { Time(Date(2026, 11, 5), 0, 0),
      Time(Date(2026, 11, 5), 37800, 0),
      Time(Date(2024, 2, 26), 86399, 999999),
      Time(Date(2025, 12, 28), 0, 1) }

Tomorrow == <<"t", "o", "m", "o", "r", "r", "o", "w">>

\* The day references tried at clock reading t.
DayStrings(t) ==
    { FormatDMY(AddDays(t.date, k)) : k \in {-1, 0, 1, 6, 7} }
    \cup { FormatYMD(AddDays(t.date, k)) : k \in {0, 7} }
    \cup { FormatDM(AddDays(t.date, k)) : k \in {0, 2} }
    \cup { WeekdayKeys[k] : k \in 2..6 }
    \cup { <<"M", "o", "n", "d", "a", "y">>, <<"S", "U", "N", "D", "A", "Y">> }
    \cup { Tomorrow, FormatDMYShort(t.date) }

RECURSIVE SeqsUpTo(_, _)
SeqsUpTo(S, n) ==
    IF n = 0 THEN { <<>> }
    ELSE LET shorter == SeqsUpTo(S, n - 1)
         IN  shorter \cup { Append(q, x) : q \in { r \in shorter : Len(r) = n - 1 }, x \in S }

ToolPlaces == { "Berlin" }

ToolInit ==
    /\ now \in Clocks
    /\ place \in ToolPlaces
    /\ days \in SeqsUpTo(DayStrings(now), MaxDays)
    /\ pc = "geocode"
    /\ location = "unset"
    /\ failure = "none"
    /\ today = NoTime
    /\ i = 1
    /\ days_to_get_weather = <<>>
    /\ messages = <<>>
    /\ weather_data = <<>>
    /\ fetches = 0
    /\ ret = NoReturn

\* --------------------------------------------- make_weather_call: actions

\* geolocator.geocode(place) raises.
GeocodeRaises ==
    /\ pc = "geocode"
    /\ failure' = "geocoder"
    /\ ret' = ReturnText(GeoErrorText)
    /\ pc' = "done"
    /\ UNCHANGED <<now, place, days, location, today, i, days_to_get_weather,
                   messages, weather_data, fetches>>
    /\ UNCHANGED chatVars

\* geolocator.geocode(place) returns None.
MutGeocodeNone ==
    /\ pc = "geocode"
    /\ location' = "None"
    /\ today' = now
    /\ pc' = "loop"
    /\ UNCHANGED <<now, place, days, failure, i, days_to_get_weather, messages,
                   weather_data, fetches, ret>>
    /\ UNCHANGED chatVars
GeocodeNone ==
    /\ pc = "geocode"
    /\ location' = "None"
    /\ ret' = ReturnText(NotFoundText)
    /\ pc' = "done"
    /\ UNCHANGED <<now, place, days, failure, today, i, days_to_get_weather,
                   messages, weather_data, fetches>>
    /\ UNCHANGED chatVars

\* geolocator.geocode(place) returns a location; today is read.
GeocodeFound ==
    /\ pc = "geocode"
    /\ location' = "found"
    /\ today' = now
    /\ days_to_get_weather' = <<>>
    /\ messages' = <<>>
    /\ i' = 1
    /\ pc' = "loop"
    /\ UNCHANGED <<now, place, days, failure, weather_data, fetches, ret>>
    /\ UNCHANGED chatVars

\* for day in days: the entry resolves to an offset.
ResolveOffset ==
    /\ pc = "loop"
    /\ i <= Len(days)
    /\ ResolveDay(days[i], today).kind = "offset"
    /\ days_to_get_weather' = Append(days_to_get_weather, ResolveDay(days[i], today).value)
    /\ i' = i + 1
    /\ UNCHANGED <<now, place, days, pc, location, failure, today, messages,
                   weather_data, fetches, ret>>
    /\ UNCHANGED chatVars

\* for day in days: the entry is a date outside the window.
ResolveRejected ==
    /\ pc = "loop"
    /\ i <= Len(days)
    /\ ResolveDay(days[i], today).kind = "rejected"
    /\ messages' = Append(messages, ResolveDay(days[i], today).message)
    /\ i' = i + 1
    /\ UNCHANGED <<now, place, days, pc, location, failure, today,
                   days_to_get_weather, weather_data, fetches, ret>>
    /\ UNCHANGED chatVars

\* for day in days: the entry is neither a weekday name nor a date.
ResolveSkipped ==
    /\ pc = "loop"
    /\ i <= Len(days)
    /\ ResolveDay(days[i], today).kind = "skipped"
    /\ i' = i + 1
    /\ UNCHANGED <<now, place, days, pc, location, failure, today,
                   days_to_get_weather, messages, weather_data, fetches, ret>>
    /\ UNCHANGED chatVars

\* After the loop, with messages: the default, then return {"error": messages}.
ReturnErrors ==
    /\ pc = "loop"
    /\ i > Len(days)
    /\ messages # <<>>
    /\ days_to_get_weather' = DefaultDays(days_to_get_weather)
    /\ ret' = ReturnError(messages)
    /\ pc' = "done"
    /\ UNCHANGED <<now, place, days, location, failure, today, i, messages,
                   weather_data, fetches>>
    /\ UNCHANGED chatVars

\* After the loop, without messages: the default, then on to get_weather.
LoopDone ==
    /\ pc = "loop"
    /\ i > Len(days)
    /\ messages = <<>>
    /\ days_to_get_weather' = DefaultDays(days_to_get_weather)
    /\ pc' = "fetch"
    /\ UNCHANGED <<now, place, days, location, failure, today, i, messages,
                   weather_data, fetches, ret>>
    /\ UNCHANGED chatVars

\* get_weather raises.
FetchRaises ==
    /\ pc = "fetch"
    /\ fetches' = fetches + 1
    /\ failure' = "weather"
    /\ ret' = ReturnText(WeatherErrorText)
    /\ pc' = "done"
    /\ UNCHANGED <<now, place, days, location, today, i, days_to_get_weather,
                   messages, weather_data>>
    /\ UNCHANGED chatVars

\* get_weather reads the clock again, which stands where it stood or has
\* passed midnight since, and returns the forecast from that day on.
FetchReturns ==
    /\ pc = "fetch"
    /\ \E later \in { now, Time(NextDay(now.date), 0, 0) } :
          /\ now' = later
          /\ weather_data' = GetWeather(later.date)
    /\ fetches' = fetches + 1
    /\ pc' = "filter"
    /\ UNCHANGED <<place, days, location, failure, today, i, days_to_get_weather,
                   messages, ret>>
    /\ UNCHANGED chatVars

\* The rows at the resolved offsets, with their weekday names, as records.
Filter ==
    /\ pc = "filter"
    /\ ret' = ReturnJson(FilterRows(weather_data, days_to_get_weather))
    /\ pc' = "done"
    /\ UNCHANGED <<now, place, days, location, failure, today, i,
                   days_to_get_weather, messages, weather_data, fetches>>
    /\ UNCHANGED chatVars

ToolStep ==
    \/ GeocodeRaises
    \/ GeocodeNone
    \/ GeocodeFound
    \/ ResolveOffset
    \/ ResolveRejected
    \/ ResolveSkipped
    \/ ReturnErrors
    \/ LoopDone
    \/ FetchRaises
    \/ FetchReturns
    \/ Filter

\* -------------------------------------------------------- run_chatbot: data

\* 'exit'
ExitCommand == <<"e", "x", "i", "t">>

\* user_input.lower() == 'exit'
IsExit(l) == Lower(l) = ExitCommand

\* The lines a user types.
UserLines ==
    { ExitCommand,
      <<"E", "X", "I", "T">>,
      <<"E", "x", "i", "t">>,
      <<"h", "i">>,
      <<"e", "x", "i", "t", " ">> }

\* SystemMessage(f"{system_message_base} Today is {current_weekday}, {current_date}.")
SystemMessage(t) ==
    [type |-> "system", weekday |-> DayNames[Weekday(t.date) + 1], date |-> FormatYMD(t.date)]

\* The user line as forwarded: prefixed with "Previously, I asked about
\* {previous_place}. " unless previous_place is the empty string.
HumanMessage(prev, l) ==
    IF prev # ""
    THEN [type |-> "human", previously |-> TRUE, place |-> prev, line |-> l]
    ELSE [type |-> "human", previously |-> FALSE, place |-> "", line |-> l]

\* An LLM response: its text and the tool calls it requests.
AIMessage(content, calls) == [type |-> "ai", content |-> content, tool_calls |-> calls]
NoResponse == AIMessage("", <<>>)

\* The ToolMessage a tool returns for the call with the given id.
ToolMessage(id, content) == [type |-> "tool", tool_call_id |-> id, content |-> content]

ToolCall(name, p, ds) == [name |-> name, args |-> [place |-> p, days |-> ds]]

\* The only key of the tool table.
MakeWeatherCallName ==
    <<"m", "a", "k", "e", "_", "w", "e", "a", "t", "h", "e", "r", "_", "c", "a", "l", "l">>

\* {"make_weather_call": make_weather_call}[name.lower()] finds the tool
\* (else KeyError).
ToolKnown(name) == Lower(name) = MakeWeatherCallName

\* The clock of the conversations modelled: a Thursday, mid-morning.
ChatClock == Time(Date(2026, 11, 5), 37800, 0)

\* The tool calls an LLM response is made of: the tool under its name with
\* a place and a weekday, under its name in another letter case with a place
\* and a date of the past, with an empty place, and a tool that is not in
\* the table.
RequestedCalls ==
    { ToolCall(MakeWeatherCallName, "Berlin", << WeekdayKeys[1] >>),
      ToolCall(<<"M", "a", "k", "e", "_", "W", "e", "a", "t", "h", "e", "r", "_", "C", "a", "l", "l">>,
               "Paris", << FormatDMY(PrevDay(ChatClock.date)) >>),
      ToolCall(MakeWeatherCallName, "", <<>>),
      ToolCall(<<"g", "e", "t", "_", "t", "i", "m", "e">>, "Berlin", <<>>) }

\* The tool calls the response of a second invocation may carry.
SecondResponseCalls ==
    { <<>>, << ToolCall(MakeWeatherCallName, "Berlin", << WeekdayKeys[1] >>) >> }

\* The texts an LLM response carries.
Contents == { "sunny", "rainy" }

\* What the loop prints.
Goodbye == [kind |-> "goodbye", content |-> "Goodbye!"]
ErrorLine ==
    [kind |-> "error", content |-> "Error: The LLM could not be reached. Please try again later."]
BotLine(resp) == [kind |-> "bot", content |-> resp.content]

\* ------------------------------------------------ run_chatbot: start state

\* An invocation of an LLM binding with a message list.
Invocation(llm, msgs) == [llm |-> llm, messages |-> msgs]

\* The state of run_chatbot on reaching the loop.
LoopInit ==
    /\ cpc = "input"
    /\ start = TRUE
    /\ previous_place = ""
    /\ line = <<>>
    /\ chat_messages = <<>>
    /\ response = NoResponse
    /\ tool_index = 1
    /\ out = <<>>
    /\ turn = 0
    /\ first_response = NoResponse
    /\ invocations = <<>>
    /\ executed = <<>>
    /\ tool_ran = FALSE
    /\ last_tool_place = ""

\* No call of make_weather_call is under way step by step.
ToolIdle ==
    /\ now = ChatClock
    /\ place = ""
    /\ days = <<>>
    /\ pc = "idle"
    /\ location = "unset"
    /\ failure = "none"
    /\ today = NoTime
    /\ i = 1
    /\ days_to_get_weather = <<>>
    /\ messages = <<>>
    /\ weather_data = <<>>
    /\ fetches = 0
    /\ ret = NoReturn

\* ----------------------------------------------------- run_chatbot: actions

\* input() returns the quit command: print "Goodbye!" and break.
ReadExit ==
    /\ cpc = "input"
    /\ \E l \in UserLines :
          /\ IsExit(l)
          /\ line' = l
    /\ out' = <<Goodbye>>
    /\ cpc' = "exited"
    /\ first_response' = NoResponse
    /\ invocations' = <<>>
    /\ executed' = <<>>
    /\ UNCHANGED <<start, previous_place, chat_messages, response, tool_index, turn,
                   tool_ran, last_tool_place>>
    /\ UNCHANGED toolVars

\* input() returns another line: the message list of the turn is built.
ReadLine ==
    /\ cpc = "input"
    /\ turn < MaxTurns
    /\ \E l \in UserLines :
          /\ ~IsExit(l)
          /\ line' = l
          /\ chat_messages' = <<SystemMessage(now), HumanMessage(previous_place, l)>>
    /\ out' = <<>>
    /\ turn' = turn + 1
    /\ cpc' = "invoke"
    /\ first_response' = NoResponse
    /\ invocations' = <<>>
    /\ executed' = <<>>
    /\ UNCHANGED <<start, previous_place, response, tool_index, tool_ran, last_tool_place>>
    /\ UNCHANGED toolVars

\* The binding the first invocation of a turn uses.
FirstBinding == IF start THEN "llm_forced_to_use_tools" ELSE "llm_with_tools"

\* The first invocation raises: print the error and go on with the next line.
FirstInvokeFails ==
    /\ cpc = "invoke"
    /\ invocations' = Append(invocations, Invocation(FirstBinding, chat_messages))
    /\ out' = Append(out, ErrorLine)
    /\ cpc' = "input"
    /\ UNCHANGED <<start, previous_place, line, chat_messages, response, tool_index, turn,
                   first_response, executed, tool_ran, last_tool_place>>
    /\ UNCHANGED toolVars

\* The first invocation answers without a tool call (tool_choice='any'
\* leaves the forced binding no such answer): its text is printed.
FirstInvokeReplies ==
    /\ cpc = "invoke"
    /\ ~start
    /\ \E c \in Contents :
          /\ response' = AIMessage(c, <<>>)
          /\ first_response' = AIMessage(c, <<>>)
          /\ chat_messages' = Append(chat_messages, AIMessage(c, <<>>))
          /\ out' = Append(out, BotLine(AIMessage(c, <<>>)))
    /\ invocations' = Append(invocations, Invocation(FirstBinding, chat_messages))
    /\ start' = FALSE
    /\ cpc' = "input"
    /\ UNCHANGED <<previous_place, line, tool_index, turn, executed, tool_ran,
                   last_tool_place>>
    /\ UNCHANGED toolVars

\* The first invocation answers with tool calls.
FirstInvokeRequestsTools ==
    /\ cpc = "invoke"
    /\ \E c \in Contents, calls \in SeqsUpTo(RequestedCalls, MaxCalls) \ { <<>> } :
          /\ response' = AIMessage(c, calls)
          /\ first_response' = AIMessage(c, calls)
          /\ chat_messages' = Append(chat_messages, AIMessage(c, calls))
    /\ invocations' = Append(invocations, Invocation(FirstBinding, chat_messages))
    /\ start' = FALSE
    /\ tool_index' = 1
    /\ cpc' = "tools"
    /\ UNCHANGED <<previous_place, line, out, turn, executed, tool_ran, last_tool_place>>
    /\ UNCHANGED toolVars

\* The next tool call names a tool the table does not hold: the lookup
\* raises KeyError, which nothing catches.
ToolLookupFails ==
    /\ cpc = "tools"
    /\ tool_index <= Len(response.tool_calls)
    /\ ~ToolKnown(response.tool_calls[tool_index].name)
    /\ cpc' = "crashed"
    /\ UNCHANGED <<start, previous_place, line, chat_messages, response, tool_index, out,
                   turn, first_response, invocations, executed, tool_ran, last_tool_place>>
    /\ UNCHANGED toolVars

\* The next tool call is executed: its result is appended to the messages
\* and its place becomes previous_place.
MutExecuteTool ==
    /\ cpc = "tools"
    /\ tool_index <= Len(response.tool_calls)
    /\ ToolKnown(response.tool_calls[tool_index].name)
    /\ \E geo \in {"raises", "None", "found"}, wx \in {"raises", "returns"} :
          chat_messages' = Append(chat_messages,
              ToolMessage(tool_index,
                  MakeWeatherCall(response.tool_calls[tool_index].args.days, now, geo, wx)))
    /\ previous_place' = response.tool_calls[1].args.place
    /\ tool_index' = tool_index + 1
    /\ executed' = Append(executed, response.tool_calls[tool_index])
    /\ tool_ran' = TRUE
    /\ last_tool_place' = response.tool_calls[tool_index].args.place
    /\ UNCHANGED <<cpc, start, line, response, out, turn, first_response, invocations>>
    /\ UNCHANGED toolVars
ExecuteTool ==
    /\ cpc = "tools"
    /\ tool_index <= Len(response.tool_calls)
    /\ ToolKnown(response.tool_calls[tool_index].name)
    /\ \E geo \in {"raises", "None", "found"}, wx \in {"raises", "returns"} :
          chat_messages' = Append(chat_messages,
              ToolMessage(tool_index,
                  MakeWeatherCall(response.tool_calls[tool_index].args.days, now, geo, wx)))
    /\ previous_place' = response.tool_calls[tool_index].args.place
    /\ tool_index' = tool_index + 1
    /\ executed' = Append(executed, response.tool_calls[tool_index])
    /\ tool_ran' = TRUE
    /\ last_tool_place' = response.tool_calls[tool_index].args.place
    /\ UNCHANGED <<cpc, start, line, response, out, turn, first_response, invocations>>
    /\ UNCHANGED toolVars

\* After the last tool call the second invocation raises: print the error
\* and go on with the next line.
SecondInvokeFails ==
    /\ cpc = "tools"
    /\ tool_index > Len(response.tool_calls)
    /\ invocations' = Append(invocations, Invocation("llm_with_tools", chat_messages))
    /\ out' = Append(out, ErrorLine)
    /\ cpc' = "input"
    /\ UNCHANGED <<start, previous_place, line, chat_messages, response, tool_index, turn,
                   first_response, executed, tool_ran, last_tool_place>>
    /\ UNCHANGED toolVars

\* After the last tool call the second invocation answers: its text is
\* printed, whatever tool calls it requests.
SecondInvokeReturns ==
    /\ cpc = "tools"
    /\ tool_index > Len(response.tool_calls)
    /\ \E c \in Contents, calls \in SecondResponseCalls :
          /\ response' = AIMessage(c, calls)
          /\ chat_messages' = Append(chat_messages, AIMessage(c, calls))
          /\ out' = Append(out, BotLine(AIMessage(c, calls)))
    /\ invocations' = Append(invocations, Invocation("llm_with_tools", chat_messages))
    /\ cpc' = "input"
    /\ UNCHANGED <<start, previous_place, line, tool_index, turn, first_response,
                   executed, tool_ran, last_tool_place>>
    /\ UNCHANGED toolVars

ChatStep ==
    \/ ReadExit
    \/ ReadLine
    \/ FirstInvokeFails
    \/ FirstInvokeReplies
    \/ FirstInvokeRequestsTools
    \/ ToolLookupFails
    \/ ExecuteTool
    \/ SecondInvokeFails
    \/ SecondInvokeReturns

\* ----------------------------------------------------------- specifications

\* run_chatbot is not running.
ChatOff ==
    /\ cpc = "off"
    /\ start = TRUE
    /\ previous_place = ""
    /\ line = <<>>
    /\ chat_messages = <<>>
    /\ response = NoResponse
    /\ tool_index = 1
    /\ out = <<>>
    /\ turn = 0
    /\ first_response = NoResponse
    /\ invocations = <<>>
    /\ executed = <<>>
    /\ tool_ran = FALSE
    /\ last_tool_place = ""

\* One call of make_weather_call, step by step.
Init == ToolInit /\ ChatOff
Next == ToolStep
Spec == Init /\ [][Next]_vars

\* A conversation with run_chatbot, each tool call taken as one step.
ChatInit == LoopInit /\ ToolIdle
ChatNext == ChatStep
ChatSpec == ChatInit /\ [][ChatNext]_vars

\* ------------------------------------------- make_weather_call: properties

\* The call taken step by step returns what the call taken as a whole does
\* (for a forecast that starts on the day `today` was read).
StepsAgreeWithCall ==
    (pc = "done" /\ (weather_data = <<>> \/ weather_data[1].date = today.date))
    => \E geo \in {"raises", "None", "found"}, wx \in {"raises", "returns"} :
          ret = MakeWeatherCall(days, IF today = NoTime THEN now ELSE today, geo, wx)

\* A step of the loop body over the entry days[i].
LoopStep == pc = "loop" /\ i <= Len(days) /\ i' = i + 1

\* The entry spells the weekday numbered w (Monday = 0), in any letter case.
IsWeekdayName(entry, w) ==
    /\ Len(entry) = Len(WeekdayKeys[w + 1])
    /\ \A k \in 1..Len(entry) :
          \/ entry[k] = WeekdayKeys[w + 1][k]
          \/ \E j \in 1..26 : LowerCase[j] = WeekdayKeys[w + 1][k] /\ UpperCase[j] = entry[k]

\* The calendar days the day strings are taken from, as offsets from today.
WindowOffsets == -1..8

\* The entries the loop resolved to an offset, and those it rejected.
ResolvedEntries ==
    LET Test(e) == ResolveDay(e, today).kind = "offset" IN SelectSeq(days, Test)
RejectedEntries ==
    LET Test(e) == ResolveDay(e, today).kind = "rejected" IN SelectSeq(days, Test)

\* The call returned after the loop ran over every entry of days.
ReturnedAfterLoop == pc = "done" /\ location = "found"

\* C1: a day given as the full date (dd.mm.yyyy or yyyy-mm-dd) of today + k
\* is resolved to offset k when 0 <= k <= 6, is rejected as "in the past"
\* when k < 0 and as "too far in the future" when k > 6.
C1_FullDateOffsets ==
    [][\A k \in WindowOffsets :
         (/\ LoopStep
          /\ days[i] \in { FormatDMY(AddDays(today.date, k)), FormatYMD(AddDays(today.date, k)) })
         => /\ (k \in 0..6 =>
                  /\ days_to_get_weather' = Append(days_to_get_weather, k)
                  /\ messages' = messages)
            /\ (k < 0 =>
                  /\ days_to_get_weather' = days_to_get_weather
                  /\ messages' = Append(messages, Message(days[i], PastText)))
            /\ (k > 6 =>
                  /\ days_to_get_weather' = days_to_get_weather
                  /\ messages' = Append(messages, Message(days[i], FutureText)))]_vars

\* C2: a day given as dd.mm that denotes today + k, 0 <= k <= 6, is resolved
\* to offset k and adds no rejection message.
C2_YearlessDateOffsets ==
    [][\A k \in 0..6 :
         (LoopStep /\ days[i] = FormatDM(AddDays(today.date, k)))
         => /\ days_to_get_weather' = Append(days_to_get_weather, k)
            /\ messages' = messages]_vars

\* C3: a weekday name, in any letter case, is resolved to (w - t) mod 7 for
\* the named weekday w and today's weekday t: an offset in 0..6 whose day
\* is a w, 0 for today's own weekday; it adds no rejection message.
C3_WeekdayOffsets ==
    [][\A w \in 0..6 :
         (LoopStep /\ IsWeekdayName(days[i], w))
         => \E o \in 0..6 :
               /\ o = (w - Weekday(today.date)) % 7
               /\ Weekday(AddDays(today.date, o)) = w
               /\ (w = Weekday(today.date) => o = 0)
               /\ days_to_get_weather' = Append(days_to_get_weather, o)
               /\ messages' = messages]_vars

\* C3 witness: an upper-case weekday name other than today's was resolved.
C3_Witness ==
    /\ pc = "loop"
    /\ i = 2
    /\ days[1] = <<"S", "U", "N", "D", "A", "Y">>
    /\ Weekday(today.date) # 6
    /\ days_to_get_weather = <<(6 - Weekday(today.date)) % 7>>

\* C4 as claimed: whenever no entry yielded a valid offset (and the weather
\* fetch did not fail), the call returns the rows of all seven days.
C4_DefaultAlways ==
    (/\ ReturnedAfterLoop
     /\ ResolvedEntries = <<>>
     /\ failure # "weather")
    => /\ ret.kind = "json"
       /\ Len(ret.rows) = 7
       /\ \A k \in 1..7 : ret.rows[k].date = weather_data[k].date

\* C4 as amended: when no entry yielded a valid offset and none was
\* rejected, the call goes on with offsets 0..6 and, unless the weather
\* fetch fails, returns the rows of all seven days.
C4_DefaultWhenNoRejection ==
    (/\ pc \in {"fetch", "filter", "done"}
     /\ location = "found"
     /\ ResolvedEntries = <<>>
     /\ RejectedEntries = <<>>)
    => /\ days_to_get_weather = <<0, 1, 2, 3, 4, 5, 6>>
       /\ (pc = "done" /\ failure # "weather") =>
             /\ ret.kind = "json"
             /\ fetches = 1
             /\ Len(ret.rows) = 7
             /\ \A k \in 1..7 : ret.rows[k].date = weather_data[k].date

\* C4 witness: a list holding only unparseable entries returned seven rows.
C4_Witness ==
    /\ pc = "done"
    /\ location = "found"
    /\ days # <<>>
    /\ ResolvedEntries = <<>>
    /\ ret.kind = "json"
    /\ Len(ret.rows) = 7

\* Nothing of the day resolution or of the weather fetch has happened.
Untouched ==
    /\ today = NoTime
    /\ i = 1
    /\ days_to_get_weather = <<>>
    /\ messages = <<>>
    /\ fetches = 0
    /\ weather_data = <<>>

\* C5: a geocoder exception returns the Geolocation error text, a geocoder
\* result of None returns the different not-found text, both without day
\* resolution or weather fetch; a weather fetch exception returns the
\* could-not-retrieve text.  Each ends the call with a returned value.
C5_FailuresReturned ==
    /\ failure = "geocoder" =>
          pc = "done" /\ ret = ReturnText(GeoErrorText) /\ Untouched
    /\ location = "None" =>
          pc = "done" /\ ret = ReturnText(NotFoundText) /\ Untouched
          /\ ret # ReturnText(GeoErrorText)
    /\ failure = "weather" =>
          pc = "done" /\ ret = ReturnText(WeatherErrorText)
    /\ pc = "done" => ret.kind # "none"

\* C5 witness: the geocoder found nothing for a call with days to resolve.
C5_Witness ==
    /\ pc = "done"
    /\ location = "None"
    /\ days # <<>>
    /\ ret = ReturnText(NotFoundText)

\* C6: with a forecast whose first row is today's, the returned array has
\* one row per resolved offset, in the order resolved from days, each the
\* forecast row of today + offset with the weekday name of (t + offset) mod 7.
C6_FilteredRows ==
    (/\ pc = "done"
     /\ ret.kind = "json"
     /\ Len(weather_data) = 7
     /\ weather_data[1].date = today.date)
    => /\ Len(ret.rows) = Len(days_to_get_weather)
       /\ (ResolvedEntries # <<>> =>
             /\ Len(ret.rows) = Len(ResolvedEntries)
             /\ \A k \in 1..Len(ret.rows) :
                   days_to_get_weather[k] = ResolveDay(ResolvedEntries[k], today).value)
       /\ \A k \in 1..Len(ret.rows) :
             /\ ret.rows[k].date = weather_data[days_to_get_weather[k] + 1].date
             /\ ret.rows[k].date = AddDays(today.date, days_to_get_weather[k])
             /\ ret.rows[k].day_of_week =
                   DayNames[((Weekday(today.date) + days_to_get_weather[k]) % 7) + 1]

\* C6 witness: a day referenced twice came back as two equal rows.
C6_Witness ==
    /\ pc = "done"
    /\ ret.kind = "json"
    /\ weather_data[1].date = today.date
    /\ Len(ret.rows) = 2
    /\ days[1] # days[2]
    /\ ret.rows[1] = ret.rows[2]
    /\ days_to_get_weather[1] > 0

\* C10: if some entry is a date that is rejected, the call returns the
\* error with exactly one message per rejected entry, in input order, makes
\* no weather fetch and returns no rows, whatever the other entries resolved
\* to; an unparseable entry contributes no message.
C10_RejectionReturnsErrors ==
    (ReturnedAfterLoop /\ RejectedEntries # <<>>)
    => /\ ret.kind = "error"
       /\ ret.rows = <<>>
       /\ fetches = 0
       /\ weather_data = <<>>
       /\ Len(ret.error) = Len(RejectedEntries)
       /\ \A k \in 1..Len(ret.error) :
             /\ ret.error[k].day = RejectedEntries[k]
             /\ ret.error[k].text \in {PastText, FutureText}
             /\ ParseDate(ret.error[k].day) # NoDate

\* C10 witness: a list of one entry that resolved to an offset and one
\* rejected date returned the error alone.
C10_Witness ==
    /\ pc = "done"
    /\ ret.kind = "error"
    /\ Len(days) = 2
    /\ Len(ret.error) = 1
    /\ days_to_get_weather # <<>>
    /\ days_to_get_weather # <<0, 1, 2, 3, 4, 5, 6>>

\* ------------------------------------------------- run_chatbot: properties

IsBotLine(o) == o.kind = "bot"

\* The bot replies the turn printed.
Replies == SelectSeq(out, IsBotLine)

\* The turn's message list up to the first response and the results of the
\* first n tool calls.
IsTurnMessages(msgs, n) ==
    /\ Len(msgs) >= 3 + n
    /\ msgs[1].type = "system"
    /\ msgs[2].type = "human"
    /\ msgs[3] = first_response
    /\ \A j \in 1..n : msgs[3 + j].type = "tool" /\ msgs[3 + j].tool_call_id = j

\* A turn that got a first response has ended, or the loop has.
TurnOver(ends) == cpc \in ends /\ first_response # NoResponse

\* What C7 says of a turn that is over.
TurnAsClaimed(ends) ==
    LET n == Len(first_response.tool_calls) IN
    /\ Len(Replies) <= 1
    /\ (TurnOver(ends) /\ n >= 1) =>
          /\ executed = first_response.tool_calls
          /\ Len(invocations) = 2
          /\ invocations[2].llm = "llm_with_tools"
          /\ Len(invocations[2].messages) = 3 + n
          /\ IsTurnMessages(invocations[2].messages, n)
          /\ IsTurnMessages(chat_messages, n)
          /\ (Replies # <<>> =>
                /\ Len(chat_messages) = 4 + n
                /\ Replies = << BotLine(chat_messages[4 + n]) >>)
    /\ (TurnOver(ends) /\ n = 0) =>
          /\ executed = <<>>
          /\ Len(invocations) = 1
          /\ Replies = << BotLine(first_response) >>

\* C7: in a turn whose first response requests n >= 1 tool calls, all n are
\* executed in the order requested, each result is appended to the turn's
\* messages, the LLM is invoked exactly once more with all n results, and
\* only that second response is printed; without a tool call no tool is
\* executed and the first response is printed; at most one reply per line.
C7_ToolCallsThenReply == TurnAsClaimed({"input", "exited", "crashed"})

\* The turns that end by going back to input() are as C7 says.
CompletedTurnsInOrder == TurnAsClaimed({"input"})

\* C8: the loop ends only on the quit command, given in any letter case and
\* without any LLM or tool invocation; when an LLM invocation fails the error
\* is printed, no reply is, and the loop reads the next line.
C8_OnlyExitEnds ==
    /\ cpc \in {"input", "invoke", "tools", "exited"}
    /\ cpc = "exited" =>
          /\ IsExit(line)
          /\ out = <<Goodbye>>
          /\ invocations = <<>>
          /\ executed = <<>>
    /\ (\E j \in 1..Len(out) : out[j] = ErrorLine) =>
          /\ cpc = "input"
          /\ Replies = <<>>

\* Whatever ends the loop other than the uncaught lookup error is as C8 says.
ExitAndFailuresAsClaimed ==
    /\ cpc = "exited" =>
          /\ IsExit(line)
          /\ out = <<Goodbye>>
          /\ invocations = <<>>
          /\ executed = <<>>
    /\ (\E j \in 1..Len(out) : out[j] = ErrorLine) =>
          /\ cpc = "input"
          /\ Replies = <<>>

\* The request of the turn carries the current line.
ForwardsLine ==
    /\ Len(chat_messages) = 2
    /\ chat_messages[2].type = "human"
    /\ chat_messages[2].line = line

\* C9 as claimed: the request of every turn carries the current line and,
\* once a tool call has been executed, names the place of the last tool call
\* executed as the previously asked place.
C9_NamesLastPlace ==
    cpc = "invoke" =>
       /\ ForwardsLine
       /\ tool_ran =>
             /\ chat_messages[2].previously
             /\ chat_messages[2].place = last_tool_place

\* C9 as amended: the request of every turn carries the current line; once
\* a tool call has been executed it names the place of the last tool call
\* executed as the previously asked place if that place is not the empty
\* string, and names no previous place if it is (or no tool call was yet
\* executed).
C9_NamesLastNonEmptyPlace ==
    cpc = "invoke" =>
       /\ ForwardsLine
       /\ (tool_ran /\ last_tool_place # "") =>
             /\ chat_messages[2].previously
             /\ chat_messages[2].place = last_tool_place
       /\ (~tool_ran \/ last_tool_place = "") =>
             ~chat_messages[2].previously

\* C9 witness: a turn that executed a call for Berlin and then one for
\* Paris is followed by a request naming Paris.
C9_Witness ==
    /\ cpc = "invoke"
    /\ Len(response.tool_calls) = 2
    /\ response.tool_calls[1].args.place = "Berlin"
    /\ response.tool_calls[2].args.place = "Paris"
    /\ tool_index = 3
    /\ last_tool_place = "Paris"
    /\ chat_messages[2].previously
    /\ chat_messages[2].place = "Paris"

====
